---- MODULE Spec2Model ----
(***************************************************************************)
(* Model of the sales dashboard of src/app.py: the cached acquisition      *)
(* step load_data (remote sheet, or the synthetic table of                 *)
(* create_demo_data when any step fails), and the render main              *)
(* (coercion, date and region filters, KPIs, grouped sums).                *)
(*                                                                         *)
(* A table is a sequence of rows; a row is a record of cells.  A cell of   *)
(* sales/customers is a record [t, v]: t = "num" a number v, "numstr" a    *)
(* text that reads as the number v, "txt" any other text (the empty cell   *)
(* included), "nan" the missing value.  A cell of date is [t, y, m, d]:    *)
(* t = "ts" a timestamp, "str" a text that reads as a date, "blank" the    *)
(* empty cell, "nat" the missing date.  All dates lie in DemoYear.  Sums   *)
(* are exact (the values are integers far below 2^53).                     *)
(***************************************************************************)
EXTENDS Integers, Sequences, FiniteSets, TLC

VARIABLES now,       \* wall clock, seconds since the first run of the script
          pc,        \* where the run of main stands: "idle", "widgets"
          cache,     \* the entry st.cache_data keeps for load_data
          acquired,  \* history: the table the acquisition step last returned
          call,      \* what the last call of load_data did
          view,      \* what the last run of main computed and displayed
          gi, grow,  \* create_demo_data row by row: next day index, last row
          fin, fview \* the filter pipeline alone: its inputs, what it computed

vars == <<now, pc, cache, acquired, call, view, gi, grow, fin, fview>>

-----------------------------------------------------------------------------
(* Bounds of the model *)
MaxTime == 301
MaxSeed == 2
MaxRemoteRows == 2
MaxTableRows == 3

(* Constants of the program *)
TTL == 300
DemoYear == 2024
BaseSales == 50000
SalesStep == 100
NoiseLo == -5000
NoiseHi == 10000
BaseCustomers == 100
CustLo == -20
CustHi == 50

DemoStart == <<DemoYear, 1, 1>>
DemoEnd == <<DemoYear, 12, 31>>
Products == <<"Product A", "Product B", "Product C", "Product D">>
Regions == <<"Tashkent", "Samarkand", "Bukhara", "Fergana">>
Sentinel == "Barchasi"

-----------------------------------------------------------------------------
(* Calendar: what pandas computes for date_range, to_datetime, to_period *)

IsLeap(y) == (y % 4 = 0 /\ y % 100 # 0) \/ y % 400 = 0

DaysInMonth(y, m) ==
  IF m = 2 THEN (IF IsLeap(y) THEN 29 ELSE 28)
  ELSE IF m \in {4, 6, 9, 11} THEN 30 ELSE 31

RECURSIVE DaysBefore(_, _)
DaysBefore(y, m) == IF m = 1 THEN 0 ELSE DaysBefore(y, m - 1) + DaysInMonth(y, m - 1)

\* day of the year of a calendar date <<y, m, d>>, 1 for January 1st
DayOfYear(date) == DaysBefore(date[1], date[2]) + date[3]

\* the month of a day of the year
MonthOf(y, doy) == CHOOSE m \in 1..12 : DaysBefore(y, m) < doy /\ doy <= DaysBefore(y, m) + DaysInMonth(y, m)

\* the calendar date of a day of the year
DateOf(y, doy) == <<y, MonthOf(y, doy), doy - DaysBefore(y, MonthOf(y, doy))>>

\* date_range that leaves the end date out
DateRangeHalfOpen(start, end) ==
  [i \in 1..(DayOfYear(end) - DayOfYear(start)) |-> DateOf(start[1], DayOfYear(start) + i - 1)]

\* pd.date_range(start, end, freq='D'): every day from start to end, in order
DateRange(start, end) ==
  [i \in 1..(DayOfYear(end) - DayOfYear(start) + 1) |-> DateOf(start[1], DayOfYear(start) + i - 1)]

\* str(period 'M'): 'YYYY-MM', and 'NaT' for the missing date
PeriodNames == <<"2024-01", "2024-02", "2024-03", "2024-04", "2024-05", "2024-06",
                 "2024-07", "2024-08", "2024-09", "2024-10", "2024-11", "2024-12">>

-----------------------------------------------------------------------------
(* Cells *)
Num(n) == [t |-> "num", v |-> n]
NumStr(n) == [t |-> "numstr", v |-> n]
Txt == [t |-> "txt", v |-> 0]
NaN == [t |-> "nan", v |-> 0]

Ts(date) == [t |-> "ts", y |-> date[1], m |-> date[2], d |-> date[3]]
DateStr(date) == [t |-> "str", y |-> date[1], m |-> date[2], d |-> date[3]]
Blank == [t |-> "blank", y |-> 0, m |-> 0, d |-> 0]
NaT == [t |-> "nat", y |-> 0, m |-> 0, d |-> 0]

\* pd.to_numeric(errors='coerce') on one cell
ToNumeric(c) ==
  IF c.t \in {"num", "numstr"} THEN Num(c.v) ELSE NaN

\* pd.to_datetime on one cell
ToDatetime(c) ==
  IF c.t \in {"ts", "str"} THEN Ts(<<c.y, c.m, c.d>>) ELSE NaT

IsNaT(c) == c.t = "nat"

\* .dt.date of a timestamp
Date(c) == <<c.y, c.m, c.d>>

\* a <= b on datetime.date values
DateLE(a, b) ==
  \/ a[1] < b[1]
  \/ a[1] = b[1] /\ a[2] < b[2]
  \/ a[1] = b[1] /\ a[2] = b[2] /\ a[3] <= b[3]

\* the day after a calendar date
NextDay(a) ==
  IF a[3] < DaysInMonth(a[1], a[2]) THEN <<a[1], a[2], a[3] + 1>>
  ELSE IF a[2] < 12 THEN <<a[1], a[2] + 1, 1>>
  ELSE <<a[1] + 1, 1, 1>>

\* .dt.to_period('M').astype(str)
MonthStr(c) == IF IsNaT(c) THEN "NaT" ELSE PeriodNames[c.m]

-----------------------------------------------------------------------------
(* create_demo_data *)

\* the k-th draw of the unseeded generator of module random, for one of the
\* MaxSeed states it may start in
Draw(seed, k) == ((seed + 1) * 7919 + k * 6151) % 65521

\* random.randint(lo, hi) from a draw u
RandInt(lo, hi, u) == lo + (u % (hi - lo + 1))

\* random.choice(seq) from a draw u
Choice(seq, u) == seq[1 + (u % Len(seq))]

\* a row whose sales lack the increment of the day index
DemoRowFlat(dates, i, noise, cnoise, product, region) ==
  [date |-> Ts(dates[i + 1]),
   sales |-> Num(BaseSales + noise),
   customers |-> Num(BaseCustomers + cnoise),
   product |-> product,
   region |-> region]

\* the row of day index i (0 for the first day) from its four random values
DemoRow(dates, i, noise, cnoise, product, region) ==
  [date |-> Ts(dates[i + 1]),
   sales |-> Num(BaseSales + (i * SalesStep) + noise),
   customers |-> Num(BaseCustomers + cnoise),
   product |-> product,
   region |-> region]

\* line 57
DemoDates == DateRange(DemoStart, DemoEnd)

\* the four columns are drawn one after the other, each for every day
CreateDemoData(seed) ==
  LET dates == DemoDates
      n == Len(dates)
  IN [j \in 1..n |->
        DemoRow(dates, j - 1,
                RandInt(NoiseLo, NoiseHi, Draw(seed, j - 1)),
                RandInt(CustLo, CustHi, Draw(seed, n + j - 1)),
                Choice(Products, Draw(seed, 2 * n + j - 1)),
                Choice(Regions, Draw(seed, 3 * n + j - 1)))]

-----------------------------------------------------------------------------
(* The remote sheet: what get_all_records can hand back *)

RowPool ==
  { [date |-> DateStr(<<DemoYear, 1, 1>>), sales |-> Num(10), customers |-> Num(2),
     product |-> "Product A", region |-> "Tashkent"],
    [date |-> DateStr(<<DemoYear, 1, 1>>), sales |-> NumStr(7), customers |-> Num(0),
     product |-> "", region |-> "tashkent"],
    [date |-> Blank, sales |-> Num(20), customers |-> Txt,
     product |-> "Product A", region |-> "Bukhara"],
    [date |-> DateStr(<<DemoYear, 2, 1>>), sales |-> Txt, customers |-> Num(3),
     product |-> "Product B", region |-> "Tashkent"] }

SeqsUpTo(S, n) == UNION {[1..k -> S] : k \in 0..n}

\* the sheets drawn: empty, or with a row that carries a date
Sheets ==
  {s \in SeqsUpTo(RowPool, MaxRemoteRows) :
     s = <<>> \/ \E i \in DOMAIN s : s[i].date.t # "blank"}

\* pd.DataFrame(data): the rows as fetched (no columns at all when data is empty)
DataFrame(data) == data

-----------------------------------------------------------------------------
(* load_data and its cache *)

\* the step of the try block that raises: (a) reading and parsing the secret,
\* (b) authorizing, (c) opening the sheet, (d) fetching the rows, (e) building
\* the frame
Failures == {"credentials", "authorize", "open", "fetch", "frame"}

\* the acquisition steps that ran get_all_records before failing
FetchReached(outcome) == outcome \in {"fetch", "frame", "ok"}

Note(kind, text) == [kind |-> kind, text |-> text]

\* a body whose except clause misses the errors of the credentials step
LoadDataBodyNarrowExcept(outcome, sheet, seed) ==
  IF outcome = "ok"
  THEN [value |-> DataFrame(sheet),
        notes |-> <<Note("success", "loaded")>>,
        fetches |-> 1,
        raised |-> FALSE]
  ELSE IF outcome = "credentials"
  THEN [value |-> <<>>, notes |-> <<>>, fetches |-> 0, raised |-> TRUE]
  ELSE [value |-> CreateDemoData(seed),
        notes |-> <<Note("warning", "failed"), Note("error", outcome), Note("info", "demo")>>,
        fetches |-> IF FetchReached(outcome) THEN 1 ELSE 0,
        raised |-> FALSE]

\* the body of load_data: outcome is the step that fails, or "ok"
LoadDataBody(outcome, sheet, seed) ==
  IF outcome = "ok"
  THEN [value |-> DataFrame(sheet),
        notes |-> <<Note("success", "loaded")>>,
        fetches |-> 1,
        raised |-> FALSE]
  ELSE [value |-> CreateDemoData(seed),
        notes |-> <<Note("warning", "failed"), Note("error", outcome), Note("info", "demo")>>,
        fetches |-> IF FetchReached(outcome) THEN 1 ELSE 0,
        raised |-> FALSE]

NoEntry == [valid |-> FALSE, value |-> <<>>, stamp |-> 0]

\* a cache without ttl: an entry is served for ever
FreshForever(entry, t) == entry.valid

\* st.cache_data(ttl=300): an entry is served until it is older than ttl
Fresh(entry, t) == entry.valid /\ t - entry.stamp <= TTL

\* a cache that hands out the stored object itself (st.cache_resource)
AfterInPlaceShared(entry, table) == [entry EXCEPT !.value = table]

\* the entry after the caller changed, in place, the table it was handed:
\* st.cache_data hands out a copy of what it stores
AfterInPlace(entry, table) == entry

\* one call of the decorated load_data at time t
LoadData(entry, t, outcome, sheet, seed) ==
  IF Fresh(entry, t)
  THEN [entry |-> entry, df |-> entry.value, hit |-> TRUE, attempts |-> 0,
        fetches |-> 0, notes |-> <<>>, outcome |-> "cached", sheet |-> <<>>,
        raised |-> FALSE]
  ELSE LET r == LoadDataBody(outcome, sheet, seed)
       IN [entry |-> [valid |-> TRUE, value |-> r.value, stamp |-> t],
           df |-> r.value, hit |-> FALSE, attempts |-> 1,
           fetches |-> r.fetches, notes |-> r.notes, outcome |-> outcome,
           sheet |-> sheet, raised |-> r.raised]

\* what the environment decides for one execution of the body
Acquisitions ==
  {[outcome |-> "ok", sheet |-> s, seed |-> 0] : s \in Sheets}
  \cup {[outcome |-> f, sheet |-> <<>>, seed |-> sd] : f \in Failures, sd \in 0..(MaxSeed - 1)}

-----------------------------------------------------------------------------
(* main: conversions, filters, aggregates *)

\* lines 81-86: the two coercions, the date conversion, the month column
Convert(df) ==
  [i \in DOMAIN df |->
     [date |-> ToDatetime(df[i].date),
      sales |-> ToNumeric(df[i].sales),
      customers |-> ToNumeric(df[i].customers),
      product |-> df[i].product,
      region |-> df[i].region,
      month |-> MonthStr(ToDatetime(df[i].date))]]

Column(df, name) == [i \in DOMAIN df |-> df[i][name]]

\* a comparison with the missing date is False
InRange(c, lo, hi) == ~IsNaT(c) /\ DateLE(lo, Date(c)) /\ DateLE(Date(c), hi)

\* a date filter that leaves the end date out
DateFilterEndExclusive(df, date_range) ==
  IF Len(date_range) = 2
  THEN SelectSeq(df, LAMBDA r : InRange(r.date, date_range[1], date_range[2])
                                /\ Date(r.date) # date_range[2])
  ELSE df

\* line 104-105: date_range holds one date or two
DateFilter(df, date_range) ==
  IF Len(date_range) = 2
  THEN SelectSeq(df, LAMBDA r : InRange(r.date, date_range[1], date_range[2]))
  ELSE df

\* a label with its first letter in lower case
Fold(label) == IF label = "Tashkent" THEN "tashkent" ELSE label

\* a region filter that compares the labels without regard to case
RegionFilterFolded(df, selected_region) ==
  IF selected_region # Sentinel
  THEN SelectSeq(df, LAMBDA r : Fold(r.region) = Fold(selected_region))
  ELSE df

\* line 111-112
RegionFilter(df, selected_region) ==
  IF selected_region # Sentinel
  THEN SelectSeq(df, LAMBDA r : r.region = selected_region)
  ELSE df

\* the number a cell adds to a sum: missing values are skipped
Val(c) == IF c.t = "num" THEN c.v ELSE 0

RECURSIVE SumRange(_, _, _)
SumRange(cells, lo, hi) ==
  IF lo > hi THEN 0
  ELSE IF lo = hi THEN Val(cells[lo])
  ELSE LET mid == (lo + hi) \div 2
       IN SumRange(cells, lo, mid) + SumRange(cells, mid + 1, hi)

\* Series.sum()
Sum(cells) == SumRange(cells, 1, Len(cells))

\* Series.mean(): the sum over the count of the values present (0/0 is nan)
Mean(cells) ==
  [num |-> Sum(cells), den |-> Cardinality({i \in DOMAIN cells : cells[i].t = "num"})]

\* the division of line 134 without its guard (numpy gives inf or nan, den = 0)
AvgOrderUnguarded(total_sales, total_customers) ==
  [num |-> total_sales, den |-> total_customers]

\* line 134
AvgOrder(total_sales, total_customers) ==
  IF total_customers > 0
  THEN [num |-> total_sales, den |-> total_customers]
  ELSE [num |-> 0, den |-> 1]

\* the order of str: every label of the model, by code point
StrOrder == <<"", "2024-01", "2024-02", "2024-03", "2024-04", "2024-05", "2024-06",
              "2024-07", "2024-08", "2024-09", "2024-10", "2024-11", "2024-12",
              "Bukhara", "Fergana", "NaT", "Product A", "Product B", "Product C",
              "Product D", "Samarkand", "Tashkent", "tashkent">>

SortedStrs(S) == SelectSeq(StrOrder, LAMBDA x : x \in S)

\* every timestamp of the year, in order
AllDates == [i \in 1..DayOfYear(<<DemoYear, 12, 31>>) |-> Ts(DateOf(DemoYear, i))]

SortedDates(S) == SelectSeq(AllDates, LAMBDA x : x \in S)

\* the keys groupby drops (dropna=True)
DroppedKeys == {NaT}

\* the group sums after the rows lo..hi are added to the sums acc
RECURSIVE Accum(_, _, _, _, _)
Accum(keys, cells, lo, hi, acc) ==
  IF lo > hi THEN acc
  ELSE IF lo = hi
  THEN (IF keys[lo] \in DOMAIN acc THEN [acc EXCEPT ![keys[lo]] = @ + Val(cells[lo])] ELSE acc)
  ELSE LET mid == (lo + hi) \div 2
           left == Accum(keys, cells, lo, mid, acc)
       IN IF left = <<>> THEN left ELSE Accum(keys, cells, mid + 1, hi, left)

\* df.groupby(key)['sales'].sum().reset_index(): one entry per key, in the
\* order of the keys, `sorted` the keys present and not dropped
GroupSum(keys, cells, sorted) ==
  LET zero == [k \in {sorted[i] : i \in DOMAIN sorted} |-> 0]
      acc == Accum(keys, cells, 1, Len(keys), zero)
  IN [i \in DOMAIN sorted |-> [key |-> sorted[i], sales |-> acc[sorted[i]]]]

GroupByDate(df) ==
  LET keys == Column(df, "date")
  IN GroupSum(keys, Column(df, "sales"),
              SortedDates({keys[i] : i \in DOMAIN keys} \ DroppedKeys))

GroupByStr(df, name) ==
  LET keys == Column(df, name)
  IN GroupSum(keys, Column(df, "sales"), SortedStrs({keys[i] : i \in DOMAIN keys}))

\* where sort_values puts one more entry: after the entries not above it
InsertAsc(s, g) ==
  LET k == Cardinality({i \in DOMAIN s : s[i].sales <= g.sales})
  IN SubSeq(s, 1, k) \o <<g>> \o SubSeq(s, k + 1, Len(s))

RECURSIVE SortTo(_, _)
SortTo(s, n) == IF n = 0 THEN <<>> ELSE InsertAsc(SortTo(s, n - 1), s[n])

\* the group sums left in the order of their keys
SortValuesSkipped(s) == s

\* sort_values(ascending=True) on the few group sums
SortValues(s) == SortTo(s, Len(s))

\* line 108: the options of the region select box
RegionOptions(df) == <<Sentinel>> \o SortedStrs({df[i].region : i \in DOMAIN df})

\* lines 122-194 on the filtered table
Aggregate(df) ==
  LET total_sales == Sum(Column(df, "sales"))
      total_customers == Sum(Column(df, "customers"))
  IN [total_sales |-> total_sales,
      avg_sales |-> Mean(Column(df, "sales")),
      total_customers |-> total_customers,
      avg_order |-> AvgOrder(total_sales, total_customers),
      daily_sales |-> GroupByDate(df),
      product_sales |-> GroupByStr(df, "product"),
      region_sales |-> SortValues(GroupByStr(df, "region")),
      monthly_sales |-> GroupByStr(df, "month")]

-----------------------------------------------------------------------------
(* The dashboard: runs of main over time *)

NoCall == [hit |-> FALSE, attempts |-> 0, fetches |-> 0, notes |-> <<>>,
           outcome |-> "none", sheet |-> <<>>, raised |-> FALSE]

NoRatio == [num |-> 0, den |-> 0]

EmptyView ==
  [status |-> "none", loaded |-> <<>>, conv |-> <<>>, date_range |-> <<>>,
   selected_region |-> Sentinel, dated |-> <<>>, final |-> <<>>,
   total_sales |-> 0, avg_sales |-> NoRatio, total_customers |-> 0,
   avg_order |-> NoRatio, daily_sales |-> <<>>, product_sales |-> <<>>,
   region_sales |-> <<>>, monthly_sales |-> <<>>]

\* what a completed run of main displays
ViewOf(loaded, conv, date_range, selected_region, dated, final, agg) ==
  [status |-> "ok", loaded |-> loaded, conv |-> conv,
   date_range |-> date_range, selected_region |-> selected_region,
   dated |-> dated, final |-> final,
   total_sales |-> agg.total_sales, avg_sales |-> agg.avg_sales,
   total_customers |-> agg.total_customers, avg_order |-> agg.avg_order,
   daily_sales |-> agg.daily_sales, product_sales |-> agg.product_sales,
   region_sales |-> agg.region_sales, monthly_sales |-> agg.monthly_sales]

NoRow == [date |-> NaT, sales |-> NaN, customers |-> NaN, product |-> "", region |-> ""]

NoInput == [df |-> <<>>, date_range |-> <<>>, selected_region |-> Sentinel]

NoAcquired == [df |-> <<>>, outcome |-> "none", sheet |-> <<>>]

\* the clock moves between runs, to just before or just after the ttl
TickSteps == {TTL - 1, TTL + 1}

Tick ==
  /\ pc = "idle"
  /\ view.status # "none"
  /\ \E d \in TickSteps : now + d <= MaxTime /\ now' = now + d
  /\ UNCHANGED <<pc, cache, acquired, call, view, gi, grow, fin, fview>>

Range(s) == {s[i] : i \in DOMAIN s}

\* lines 94-95: the earliest and the latest date present
MinDate(df) ==
  LET S == {Date(df[i].date) : i \in {j \in DOMAIN df : ~IsNaT(df[j].date)}}
  IN CHOOSE x \in S : \A y \in S : DateLE(x, y)

MaxDate(df) ==
  LET S == {Date(df[i].date) : i \in {j \in DOMAIN df : ~IsNaT(df[j].date)}}
  IN CHOOSE x \in S : \A y \in S : DateLE(y, x)

\* st.date_input with a range value over the dates D: one date while the user
\* is choosing, else start and end
DateInputs(D) ==
  {<<a>> : a \in D} \cup {<<r[1], r[2]>> : r \in {x \in D \X D : DateLE(x[1], x[2])}}

\* lines 78-86: load_data, then the conversions in place
RunLoad ==
  /\ pc = "idle"
  /\ \E a \in (IF Fresh(cache, now) THEN {[outcome |-> "cached", sheet |-> <<>>, seed |-> 0]}
               ELSE Acquisitions) :
     \E r \in {LoadData(cache, now, a.outcome, a.sheet, a.seed)} :
          /\ call' = [hit |-> r.hit, attempts |-> r.attempts, fetches |-> r.fetches,
                      notes |-> r.notes, outcome |-> r.outcome, sheet |-> r.sheet,
                      raised |-> r.raised]
          /\ acquired' = IF r.hit \/ r.raised THEN acquired
                         ELSE [df |-> r.df, outcome |-> r.outcome, sheet |-> r.sheet]
          /\ IF r.raised
             THEN /\ cache' = cache
                  /\ view' = [EmptyView EXCEPT !.status = "raised"]
                  /\ pc' = "idle"
             ELSE IF r.df = <<>>
             THEN \* an empty frame has no column 'sales': line 81 raises KeyError
                  /\ cache' = r.entry
                  /\ view' = [EmptyView EXCEPT !.status = "KeyError"]
                  /\ pc' = "idle"
             ELSE \E conv \in {Convert(r.df)} :
                     /\ cache' = AfterInPlace(r.entry, conv)
                     /\ view' = [EmptyView EXCEPT !.status = "running",
                                                  !.loaded = r.df, !.conv = conv]
                     /\ pc' = "widgets"
  /\ UNCHANGED <<now, gi, grow, fin, fview>>

\* lines 91-213: the widgets' values, the two filters, the aggregates; the
\* picker is tried with its two bounds
RunShow ==
  /\ pc = "widgets"
  /\ \E date_range \in DateInputs({MinDate(view.conv), MaxDate(view.conv)}) :
     \E dated \in {DateFilter(view.conv, date_range)} :
     \E selected_region \in Range(RegionOptions(dated)) :
     \E final \in {RegionFilter(dated, selected_region)} :
     \E agg \in {Aggregate(final)} :
        view' = ViewOf(view.loaded, view.conv, date_range, selected_region, dated, final, agg)
  /\ pc' = "idle"
  /\ UNCHANGED <<now, cache, acquired, call, gi, grow, fin, fview>>

Init ==
  /\ now = 0
  /\ pc = "idle"
  /\ cache = NoEntry
  /\ acquired = NoAcquired
  /\ call = NoCall
  /\ view = EmptyView
  /\ gi = 0
  /\ grow = NoRow
  /\ fin = NoInput
  /\ fview = EmptyView

Next == Tick \/ RunLoad \/ RunShow

Spec == Init /\ [][Next]_vars

-----------------------------------------------------------------------------
(* create_demo_data, one row at a time, over the whole range of its draws *)

\* draws that give the least, the middle and the greatest value of randint
EdgeDraws(lo, hi) == {0, 0 - lo, hi - lo}

GenRow ==
  /\ gi < Len(DemoDates)
  /\ \E u1 \in EdgeDraws(NoiseLo, NoiseHi), u2 \in EdgeDraws(CustLo, CustHi),
        u3 \in 0..(Len(Products) - 1) :
       grow' = DemoRow(DemoDates, gi,
                       RandInt(NoiseLo, NoiseHi, u1), RandInt(CustLo, CustHi, u2),
                       Choice(Products, u3), Choice(Regions, u3 + gi))
  /\ gi' = gi + 1
  /\ UNCHANGED <<now, pc, cache, acquired, call, view, fin, fview>>

SpecDemo == Init /\ [][GenRow]_vars

-----------------------------------------------------------------------------
(* The filters and the aggregates of main on tables, ranges and regions drawn
   from bounded sets *)

\* the tables main can hold after line 86
Tables ==
  {Convert(DataFrame(s)) :
     s \in {x \in SeqsUpTo(RowPool, MaxTableRows) : \E i \in DOMAIN x : x[i].date.t # "blank"}}

\* the dates the picker is tried with: its bounds and the day after the first
PickerDates(lo, hi) == {d \in {lo, NextDay(lo), hi} : DateLE(d, hi)}

RegionChoices == {Sentinel, "Tashkent", "tashkent", "Bukhara", "Samarkand"}

FilterInputs ==
  {[df |-> t, date_range |-> dr, selected_region |-> sel] :
     t \in Tables, dr \in DateInputs({<<DemoYear, 1, 1>>, <<DemoYear, 1, 2>>, <<DemoYear, 2, 1>>}),
     sel \in RegionChoices}

FilterInit ==
  /\ now = 0
  /\ pc = "idle"
  /\ cache = NoEntry
  /\ acquired = NoAcquired
  /\ call = NoCall
  /\ view = EmptyView
  /\ gi = 0
  /\ grow = NoRow
  /\ fin \in {x \in FilterInputs :
                \A k \in DOMAIN x.date_range :
                   x.date_range[k] \in PickerDates(MinDate(x.df), MaxDate(x.df))}
  /\ fview = EmptyView

\* lines 104-194 on the drawn input
RunFilters ==
  /\ fview.status = "none"
  /\ \E dated \in {DateFilter(fin.df, fin.date_range)} :
     \E final \in {RegionFilter(dated, fin.selected_region)} :
     \E agg \in {Aggregate(final)} :
        fview' = ViewOf(fin.df, fin.df, fin.date_range, fin.selected_region, dated, final, agg)
  /\ UNCHANGED <<now, pc, cache, acquired, call, view, gi, grow, fin>>

SpecFilter == FilterInit /\ [][RunFilters]_vars

-----------------------------------------------------------------------------
(* Properties *)

\* the tables create_demo_data can return
DemoTables == {CreateDemoData(sd) : sd \in 0..(MaxSeed - 1)}

HasNote(kind) == \E i \in DOMAIN call.notes : call.notes[i].kind = kind

\* C1: load_data never raises; a failed acquisition step gives a warning and
\* the whole synthetic table, a successful one the whole sheet, never a part
\* or a mix; the rows are fetched at most once per call.
C1_FallbackWholesale ==
  /\ ~call.raised /\ view.status # "raised"
  /\ call.fetches <= 1 /\ call.attempts <= 1
  /\ acquired.outcome = "ok" => acquired.df = acquired.sheet
  /\ acquired.outcome \in Failures => acquired.df \in DemoTables
  /\ (call.outcome \in Failures) =>
        /\ HasNote("warning")
        /\ \E i \in DOMAIN call.notes : call.notes[i] = Note("error", call.outcome)
        /\ view.loaded = acquired.df
        /\ view.loaded \in DemoTables

\* a fetch that failed midway was answered with the synthetic table
C1_Witness ==
  /\ call.outcome = "fetch" /\ call.fetches = 1 /\ ~call.hit
  /\ view.status = "ok" /\ view.loaded \in DemoTables

\* C2 as stated: with failing credentials load_data returns 365 rows and does
\* not raise.
C2_Rows365 ==
  (call.outcome = "credentials") => (Len(view.loaded) = 365 /\ ~call.raised)

\* C2 as amended: with failing credentials load_data returns the 366 rows of
\* 2024-01-01 through 2024-12-31 (a leap year) and does not raise.
C2_Rows366 ==
  (call.outcome = "credentials") =>
     (Len(view.loaded) = 366 /\ Len(acquired.df) = 366 /\ ~call.raised)

C2_Witness ==
  call.outcome = "credentials" /\ view.status = "running" /\ Len(view.loaded) = 366

\* C3: a call less than ttl after the call that filled the cache returns the
\* cached table and attempts no acquisition; the entry changes only when it is
\* absent or expired; the first call after expiry attempts exactly one
\* acquisition and refills the entry.
C3_CacheWindow ==
  [][ /\ (pc = "idle" /\ now' = now /\ cache.valid /\ now - cache.stamp < TTL)
         => /\ cache' = cache
            /\ call'.hit /\ call'.attempts = 0 /\ call'.fetches = 0
            /\ (view'.status = "running" => view'.loaded = cache.value)
      /\ (cache' # cache)
         => (pc = "idle" /\ now' = now /\ (~cache.valid \/ now - cache.stamp > TTL))
      /\ (pc = "idle" /\ now' = now /\ cache.valid /\ now - cache.stamp > TTL)
         => /\ ~call'.hit /\ call'.attempts = 1
            /\ cache'.valid /\ cache'.stamp = now
    ]_vars

\* the cached synthetic fallback was served again inside the window
C3_Witness ==
  /\ call.hit /\ call.attempts = 0
  /\ now - cache.stamp = TTL - 1
  /\ acquired.outcome \in Failures
  /\ view.status = "ok" /\ view.loaded = cache.value

\* C4: a run of main never changes the cached table: it stays what the
\* acquisition step returned, and every run starts from those rows.
C4_CacheUntouched ==
  /\ cache.valid => cache.value = acquired.df
  /\ view.status \in {"running", "ok"} => view.loaded = acquired.df

\* a run served from the cache converted and narrowed its own table
C4_Witness ==
  /\ call.hit /\ view.status = "ok"
  /\ view.conv # view.loaded
  /\ Len(view.final) < Len(view.loaded)
  /\ cache.value = acquired.df

\* the k-th index, in order, of the set of indices S
Kth(S, k) == CHOOSE i \in S : Cardinality({j \in S : j <= i}) = k

\* out holds the rows of df at the indices S, in their order, and no other
ExactlyRows(out, df, S) ==
  /\ Len(out) = Cardinality(S)
  /\ \A k \in DOMAIN out : out[k] = df[Kth(S, k)]

\* C5: with a complete range start <= end the date filter keeps exactly the
\* rows with start <= date <= end, both ends included; with a single date
\* it keeps every row.
C5_DateFilterExact ==
  fview.status = "ok" =>
    /\ (Len(fin.date_range) = 2 /\ DateLE(fin.date_range[1], fin.date_range[2])) =>
          ExactlyRows(fview.dated, fin.df,
                      {i \in DOMAIN fin.df :
                         /\ fin.df[i].date.t = "ts"
                         /\ DateLE(fin.date_range[1], Date(fin.df[i].date))
                         /\ DateLE(Date(fin.df[i].date), fin.date_range[2])})
    /\ Len(fin.date_range) = 1 => fview.dated = fin.df

\* a range kept a row dated on its end date and dropped another row
C5_Witness ==
  /\ fview.status = "ok" /\ Len(fin.date_range) = 2
  /\ fin.date_range[1] # fin.date_range[2]
  /\ Len(fview.dated) < Len(fin.df)
  /\ \E i \in DOMAIN fview.dated : Date(fview.dated[i].date) = fin.date_range[2]
  /\ \E i \in DOMAIN fview.dated : Date(fview.dated[i].date) = fin.date_range[1]

\* C6: with the sentinel the region filter returns the date-filtered table
\* unchanged; with another value exactly the rows whose region is that very
\* label; a value no row carries gives no rows, and the KPIs and grouped sums
\* are still computed.
C6_RegionFilterExact ==
  fview.status = "ok" =>
    /\ fin.selected_region = Sentinel => fview.final = fview.dated
    /\ fin.selected_region # Sentinel =>
          ExactlyRows(fview.final, fview.dated,
                      {i \in DOMAIN fview.dated : fview.dated[i].region = fin.selected_region})
    /\ (fin.selected_region # Sentinel
        /\ \A i \in DOMAIN fview.dated : fview.dated[i].region # fin.selected_region) =>
          /\ fview.final = <<>>
          /\ fview.total_sales = 0 /\ fview.total_customers = 0
          /\ fview.avg_sales.den = 0 /\ fview.avg_order = [num |-> 0, den |-> 1]
          /\ fview.daily_sales = <<>> /\ fview.product_sales = <<>>
          /\ fview.region_sales = <<>> /\ fview.monthly_sales = <<>>

\* a label that differs from the rows' label only in case selected no row
C6_Witness ==
  /\ fview.status = "ok" /\ fin.selected_region = "tashkent"
  /\ fview.dated # <<>>
  /\ \A i \in DOMAIN fview.dated : fview.dated[i].region = "Tashkent"
  /\ fview.final = <<>>

\* C7: the average order value is total sales over total customers when total
\* customers is positive and 0 when it is 0; no division by zero takes place.
C7_AvgOrderValue ==
  fview.status = "ok" =>
    /\ fview.avg_order.den # 0
    /\ fview.total_customers > 0 =>
          fview.avg_order.num * fview.total_customers
            = fview.total_sales * fview.avg_order.den
    /\ fview.total_customers = 0 => fview.avg_order.num = 0

\* rows with sales whose customers are all missing: the value is 0
C7_Witness ==
  /\ fview.status = "ok" /\ fview.final # <<>>
  /\ \A i \in DOMAIN fview.final : fview.final[i].customers.t = "nan"
  /\ fview.total_sales > 0 /\ fview.total_customers = 0
  /\ fview.avg_order.num = 0

RECURSIVE GroupTotal(_, _, _)
GroupTotal(groups, lo, hi) ==
  IF lo > hi THEN 0
  ELSE IF lo = hi THEN groups[lo].sales
  ELSE LET mid == (lo + hi) \div 2
       IN GroupTotal(groups, lo, mid) + GroupTotal(groups, mid + 1, hi)

\* the groups have distinct keys, every key of a row is the key of a group,
\* and the group sums add up to total
Partitions(groups, keys, total) ==
  LET K == {groups[k].key : k \in DOMAIN groups}
  IN /\ Cardinality(K) = Len(groups)
     /\ \A i \in DOMAIN keys : keys[i] \in K
     /\ GroupTotal(groups, 1, Len(groups)) = total

\* C8: each of the four groupings puts every row of the filtered table in
\* exactly one group, and its group sums add up to the total sales of the KPI.
C8_GroupsPartition ==
  view.status = "ok" =>
    /\ Partitions(view.daily_sales, Column(view.final, "date"), view.total_sales)
    /\ Partitions(view.product_sales, Column(view.final, "product"), view.total_sales)
    /\ Partitions(view.region_sales, Column(view.final, "region"), view.total_sales)
    /\ Partitions(view.monthly_sales, Column(view.final, "month"), view.total_sales)

\* C9: the region groups hold one entry per region label of the filtered
\* table, in ascending order of their sums.
C9_RegionSalesAscending ==
  fview.status = "ok" =>
    /\ {fview.region_sales[k].key : k \in DOMAIN fview.region_sales}
         = {fview.final[i].region : i \in DOMAIN fview.final}
    /\ Len(fview.region_sales)
         = Cardinality({fview.final[i].region : i \in DOMAIN fview.final})
    /\ \A k \in 1..(Len(fview.region_sales) - 1) :
          fview.region_sales[k].sales <= fview.region_sales[k + 1].sales

\* two regions whose sums stand against the order of their labels
C9_Witness ==
  /\ fview.status = "ok" /\ Len(fview.region_sales) >= 2
  /\ fview.region_sales # GroupByStr(fview.final, "region")
  /\ fview.region_sales[1].sales < fview.region_sales[2].sales

\* the generated row of day index gi - 1 lies in the stated ranges
C10_RowInRange ==
  gi > 0 =>
    /\ grow.date.t = "ts"
    /\ gi = 1 => Date(grow.date) = <<2024, 1, 1>>
    /\ (Date(grow.date) = <<2024, 12, 31>>) <=> ~ENABLED GenRow
    /\ grow.sales.t = "num"
    /\ grow.sales.v >= 50000 + (100 * (gi - 1)) - 5000
    /\ grow.sales.v <= 50000 + (100 * (gi - 1)) + 10000
    /\ grow.customers.t = "num"
    /\ grow.customers.v >= 80 /\ grow.customers.v <= 150
    /\ grow.product \in {"Product A", "Product B", "Product C", "Product D"}
    /\ grow.region \in {"Tashkent", "Samarkand", "Bukhara", "Fergana"}

\* consecutive rows are dated on consecutive calendar days
C10_NextDay == gi > 0 /\ gi' = gi + 1 => Date(grow'.date) = NextDay(Date(grow.date))

\* C10: the row of day index i is dated i days after 2024-01-01, the last one
\* 2024-12-31; its sales lie in [50000 + 100 i - 5000, 50000 + 100 i + 10000],
\* its customers in [80, 150], its product and region in the two fixed sets.
C10_DemoRows == []C10_RowInRange /\ [][C10_NextDay]_vars

\* the row of February 29th with the least sales and the most customers
C10_Witness ==
  /\ gi = 60 /\ Date(grow.date) = <<2024, 2, 29>>
  /\ grow.sales.v = 50000 + 5900 - 5000 /\ grow.customers.v = 150

====
